---- MODULE Spec2Model ----
(***************************************************************************)
(* AgriScan Plant Doctor (src/app.py): the mock diagnosis engine           *)
(* detect_disease, the treatment table get_treatments, the chart's label   *)
(* shortening, and the Streamlit page script main() with its session       *)
(* state.                                                                  *)
(*                                                                         *)
(* Strings are TLA+ strings; Len, SubSeq and \o act on them as Python's    *)
(* len, slicing and + do.  A confidence is a fraction <<num, den>>.        *)
(* None and the empty list are both <<>>: the script only ever tests       *)
(* session_state.results for truthiness (src/app.py:359).                  *)
(***************************************************************************)
EXTENDS Integers, Sequences, FiniteSets, TLC

VARIABLES
    session_state,  \* st.session_state: camera_active, processing, results
    widgets,        \* widget values kept by the framework between runs
    page,           \* what the last run of main() did and rendered
    catalog,        \* the label catalog a detect_disease call reads
    image,          \* the argument of a detect_disease call
    draws,          \* the values np.random.rand hands to that call
    call            \* the call's progress and what it returned

vars == <<session_state, widgets, page, catalog, image, draws, call>>

----------------------------------------------------------------------------
(* Bounds of the model. *)

\* np.random.rand draws are k / (MaxDraw + 1) for k in 0..MaxDraw
MaxDraw == 3
\* the labels of a call that draw a non-zero value lie within MaxHot
\* neighbouring labels of the catalog
MaxHot == 3
\* draws of a scan made from the page: values 0..MaxShellDraw, non-zero
\* exactly on the first ShellLabels labels
MaxShellDraw == 2
ShellLabels == 3

----------------------------------------------------------------------------
(* Program constants. *)

CLASS_NAMES ==
    << "Tomato Bacterial Spot",
       "Tomato Early Blight",
       "Tomato Late Blight",
       "Tomato Leaf Mold",
       "Tomato Septoria Leaf Spot",
       "Tomato Spider Mites",
       "Tomato Target Spot",
       "Tomato Yellow Leaf Curl Virus",
       "Tomato Mosaic Virus",
       "Healthy Tomato" >>

\* [:3] of detect_disease
TopK == 3
\* [:20] and len(name) > 20 of short_names
ShortLen == 20

None == <<>>

----------------------------------------------------------------------------
(* Python string operations. *)

Min(a, b) == IF a <= b THEN a ELSE b

\* pat in s
Contains(pat, s) ==
    \E i \in 1..(Len(s) - Len(pat) + 1) : SubSeq(s, i, i + Len(pat) - 1) = pat

\* s.replace(old, new): every non-overlapping occurrence, left to right
RECURSIVE StrReplace(_, _, _)
StrReplace(s, old, new) ==
    IF Len(s) < Len(old) THEN s
    ELSE IF SubSeq(s, 1, Len(old)) = old
         THEN new \o StrReplace(SubSeq(s, Len(old) + 1, Len(s)), old, new)
         ELSE SubSeq(s, 1, 1) \o StrReplace(SubSeq(s, 2, Len(s)), old, new)

\* s[:n]
Prefix(s, n) == SubSeq(s, 1, Min(n, Len(s)))

----------------------------------------------------------------------------
(* Fractions. *)

Frac(n, d) == <<n, d>>
FracLeq(a, b) == a[1] * b[2] <= b[1] * a[2]

RECURSIVE SumTo(_, _)
SumTo(f, n) == IF n = 0 THEN 0 ELSE f[n] + SumTo(f, n - 1)

----------------------------------------------------------------------------
(* detect_disease, src/app.py:142-162. *)

\* The vectors np.random.rand(n) can hand to a call, within the bounds: the
\* non-zero entries lie within hot neighbouring labels, each k standing for
\* k / (maxd + 1).  An all-zero vector of positive length is left out: its sum
\* is 0 and the division yields no distribution at all.
DrawsOn(n, hot, maxd) ==
    IF n = 0 THEN {<<>>}
    ELSE LET Window(s) == {i \in 1..n : s <= i /\ i < s + hot}
             all == UNION { { [i \in 1..n |-> IF i \in Window(s) THEN f[i] ELSE 0] :
                              f \in [Window(s) -> 0..maxd] } :
                            s \in 1..(IF n > hot THEN n - hot + 1 ELSE 1) }
         IN  {d \in all : SumTo(d, n) > 0}

\* confidences / confidences.sum()
Normalize(d) == [i \in 1..Len(d) |-> Frac(d[i], SumTo(d, Len(d)))]

\* The indices of S that an ascending sort of conf may place last.
Largest(conf, S) == {i \in S : \A j \in S : FracLeq(conf[j], conf[i])}

\* The indices of S that an ascending sort of conf may place first.
Smallest(conf, S) == {i \in S : \A j \in S : FracLeq(conf[i], conf[j])}

RECURSIVE TakeLast(_, _, _)
TakeLast(conf, S, k) ==
    IF k = 0 \/ S = {} THEN {<<>>}
    ELSE UNION { { <<i>> \o t : t \in TakeLast(conf, S \ {i}, k - 1) } :
                 i \in Largest(conf, S) }

RECURSIVE TakeFirst(_, _, _)
TakeFirst(conf, S, k) ==
    IF k = 0 \/ S = {} THEN {<<>>}
    ELSE UNION { { <<i>> \o t : t \in TakeFirst(conf, S \ {i}, k - 1) } :
                 i \in Smallest(conf, S) }

\* A slip: the reversal [::-1] dropped, so the slice takes the head of the
\* ascending order.
TopIndicesUnreversed(conf) == TakeFirst(conf, 1..Len(conf), TopK)

\* np.argsort(confidences)[::-1][:3]: the last three places of an ascending
\* sort, last place first.  The default sort kind is not stable, so equal
\* confidences may come out in either order: every order an ascending sort
\* can produce is an outcome.
TopIndices(conf) == TakeLast(conf, 1..Len(conf), TopK)

\* The lists one call can return.  names is the global CLASS_NAMES the function
\* reads; img is never looked at; the shuffled copy `diseases` is never read.
detect_disease(names, img, d) ==
    LET confidences == Normalize(d)
    IN  { [k \in 1..Len(t) |-> [disease |-> names[t[k]],
                                confidence |-> confidences[t[k]]]] :
          t \in TopIndices(confidences) }

----------------------------------------------------------------------------
(* get_treatments, src/app.py:165-205. *)

HealthyAdvice ==
    << "Continue regular monitoring",
       "Apply balanced NPK fertilizer",
       "Maintain proper watering schedule",
       "Ensure adequate sunlight exposure" >>

EarlyBlightAdvice ==
    << "Remove infected leaves immediately",
       "Apply copper-based fungicide weekly",
       "Improve air circulation around plants",
       "Rotate crops next season" >>

LateBlightAdvice ==
    << "Apply chlorothalonil (0.05%) immediately",
       "Destroy severely infected plants",
       "Avoid overhead watering",
       "Plant resistant varieties next season" >>

SeptoriaAdvice ==
    << "Apply mancozeb fungicide (2g/L water)",
       "Remove and destroy infected leaves",
       "Stake plants for better airflow",
       "Mulch to prevent soil splash" >>

DefaultAdvice ==
    << "Apply neem oil spray every 7 days",
       "Remove affected plant parts",
       "Introduce beneficial insects",
       "Apply sulfur-based fungicide" >>

\* A slip: the final else branch lost, so `treatments = []` is returned for a
\* label no pattern matches.
get_treatments_no_default(disease_name) ==
    IF Contains("Healthy", disease_name) THEN HealthyAdvice
    ELSE IF Contains("Early Blight", disease_name) THEN EarlyBlightAdvice
    ELSE IF Contains("Late Blight", disease_name) THEN LateBlightAdvice
    ELSE IF Contains("Septoria", disease_name) THEN SeptoriaAdvice
    ELSE <<>>

get_treatments(disease_name) ==
    IF Contains("Healthy", disease_name) THEN HealthyAdvice
    ELSE IF Contains("Early Blight", disease_name) THEN EarlyBlightAdvice
    ELSE IF Contains("Late Blight", disease_name) THEN LateBlightAdvice
    ELSE IF Contains("Septoria", disease_name) THEN SeptoriaAdvice
    ELSE DefaultAdvice

----------------------------------------------------------------------------
(* The chart's labels, src/app.py:401-406. *)

\* name.replace("Tomato ", "")[:20] + ("..." if len(name) > 20 else "")
ShortName(name) ==
    Prefix(StrReplace(name, "Tomato ", ""), ShortLen)
        \o (IF Len(name) > ShortLen THEN "..." ELSE "")

short_names(diseases) == [k \in 1..Len(diseases) |-> ShortName(diseases[k])]

----------------------------------------------------------------------------
(* main(), src/app.py:208-442: one run of the page script.                  *)
(*                                                                          *)
(* A run reads the widgets (the radio's option, the uploaded file, whether  *)
(* the stream has a video receiver, the button pressed in this run, if any) *)
(* and the session state, and ends in one of three ways: it reaches the     *)
(* footer ("run"), it calls st.experimental_rerun(), which abandons the run *)
(* and starts the next at once ("rerun"), or an exception escapes and the   *)
(* framework stops the run where it is ("error").  ss is the session state  *)
(* as the run goes; r is what detect_disease returns if the run calls it.   *)
(****************************************************************************)

InputMethods == {"Use Camera", "Upload Image", "Use Sample"}

\* an uploaded file is a readable image or one Image.open cannot read
Files == {"none", "image", "unreadable"}

SampleButtons == {"Test Early Blight", "Test Late Blight", "Test Healthy Leaf"}

\* src/app.py:210-215
FreshSession == [camera_active |-> FALSE, processing |-> FALSE, results |-> None]

Prediction(name, conf) == [disease |-> name, confidence |-> conf]

\* src/app.py:301-310
EarlyBlightSample ==
    << Prediction("Tomato Early Blight", Frac(92, 100)),
       Prediction("Tomato Septoria Leaf Spot", Frac(6, 100)),
       Prediction("Tomato Late Blight", Frac(2, 100)) >>

\* src/app.py:313-322
LateBlightSample ==
    << Prediction("Tomato Late Blight", Frac(88, 100)),
       Prediction("Tomato Early Blight", Frac(8, 100)),
       Prediction("Tomato Leaf Mold", Frac(4, 100)) >>

\* src/app.py:325-334
HealthySample ==
    << Prediction("Healthy Tomato", Frac(95, 100)),
       Prediction("Tomato Bacterial Spot", Frac(3, 100)),
       Prediction("Tomato Yellow Leaf Curl Virus", Frac(2, 100)) >>

\* The "Use Camera" branch, src/app.py:235-262.
CameraBranch(ss, recv, btn, r) ==
    LET s1 == [ss EXCEPT !.camera_active = TRUE, !.results = None]
    IN  IF recv /\ btn = "Capture Leaf"
        THEN [ss |-> [s1 EXCEPT !.results = r, !.processing = FALSE,
                                !.camera_active = FALSE],
              flow |-> "rerun", detect_calls |-> 1, buttons |-> {"Capture Leaf"}]
        ELSE [ss |-> s1, flow |-> "run", detect_calls |-> 0,
              buttons |-> IF recv THEN {"Capture Leaf"} ELSE {}]

\* The "Upload Image" branch, src/app.py:265-285.  Image.open raises on a file
\* it cannot read, after processing was set.
UploadBranch(ss, file, btn, r) ==
    IF file = "none"
    THEN [ss |-> ss, flow |-> "run", detect_calls |-> 0, buttons |-> {}]
    ELSE LET s1 == [ss EXCEPT !.processing = TRUE]
         IN  IF file = "unreadable"
             THEN [ss |-> s1, flow |-> "error", detect_calls |-> 0, buttons |-> {}]
             ELSE IF btn = "Analyze Image"
             THEN [ss |-> [s1 EXCEPT !.results = r, !.processing = FALSE,
                                     !.camera_active = FALSE],
                   flow |-> "rerun", detect_calls |-> 1,
                   buttons |-> {"Analyze Image"}]
             ELSE [ss |-> s1, flow |-> "run", detect_calls |-> 0,
                   buttons |-> {"Analyze Image"}]

\* A slip: the first two buttons wired to each other's literal.
SampleBranchSwapped(ss, btn) ==
    [ss |-> [ss EXCEPT !.results =
                IF btn = "Test Early Blight" THEN LateBlightSample
                ELSE IF btn = "Test Late Blight" THEN EarlyBlightSample
                ELSE IF btn = "Test Healthy Leaf" THEN HealthySample
                ELSE @],
     flow |-> "run", detect_calls |-> 0, buttons |-> SampleButtons]

\* The "Use Sample" branch, src/app.py:288-334: each button stores a literal;
\* detect_disease is not called.
SampleBranch(ss, btn) ==
    [ss |-> [ss EXCEPT !.results =
                IF btn = "Test Early Blight" THEN EarlyBlightSample
                ELSE IF btn = "Test Late Blight" THEN LateBlightSample
                ELSE IF btn = "Test Healthy Leaf" THEN HealthySample
                ELSE @],
     flow |-> "run", detect_calls |-> 0, buttons |-> SampleButtons]

\* The status indicator, src/app.py:336-345.
StatusText(ss) ==
    IF ss.processing THEN "Analyzing leaf..."
    ELSE IF ss.camera_active THEN "Camera active - ready to scan"
    ELSE "Ready to scan"

\* A slip: the guard on the stored result lost.
ResultsSectionUnguarded(ss, btn) ==
    [ss |-> ss, flow |-> "run", panel |-> "results", buttons |-> {"New Scan"},
     treatments |-> get_treatments(IF ss.results # None THEN ss.results[1].disease ELSE ""),
     short_names |-> short_names([k \in 1..Len(ss.results) |-> ss.results[k].disease])]

\* The results column, src/app.py:357-433.
ResultsSection(ss, btn) ==
    IF ss.results # None
    THEN LET primary_disease == ss.results[1].disease
             diseases == [k \in 1..Len(ss.results) |-> ss.results[k].disease]
         IN  [ss |-> IF btn = "New Scan"
                     THEN [ss EXCEPT !.results = None, !.camera_active = FALSE,
                                     !.processing = FALSE]
                     ELSE ss,
              flow |-> IF btn = "New Scan" THEN "rerun" ELSE "run",
              panel |-> "results", buttons |-> {"New Scan"},
              treatments |-> get_treatments(primary_disease),
              short_names |-> short_names(diseases)]
    ELSE [ss |-> ss, flow |-> "run", panel |-> "placeholder", buttons |-> {},
          treatments |-> <<>>, short_names |-> <<>>]

\* The whole script.  What the run stored, how it ended and what it rendered:
\* status_text and panel are "" where the run did not get that far, and shown
\* is the stored result the results column read.
main(ss, opt, file, recv, btn, r) ==
    LET c1 == IF opt = "Use Camera" THEN CameraBranch(ss, recv, btn, r)
              ELSE IF opt = "Upload Image" THEN UploadBranch(ss, file, btn, r)
              ELSE SampleBranch(ss, btn)
        c2 == ResultsSection(c1.ss, btn)
    IN  IF c1.flow # "run"
        THEN [ss |-> c1.ss, flow |-> c1.flow, detect_calls |-> c1.detect_calls,
              status_text |-> "", panel |-> "", shown |-> None,
              buttons |-> c1.buttons, treatments |-> <<>>, short_names |-> <<>>]
        ELSE [ss |-> c2.ss, flow |-> c2.flow, detect_calls |-> c1.detect_calls,
              status_text |-> StatusText(c1.ss), panel |-> c2.panel,
              shown |-> c1.ss.results, buttons |-> c1.buttons \cup c2.buttons,
              treatments |-> c2.treatments, short_names |-> c2.short_names]

----------------------------------------------------------------------------
(* The session: the page script run once per interaction. *)

IdleCall == [stage |-> "idle", raised |-> "", results |-> None,
             panel |-> "", treatments |-> <<>>, short_names |-> <<>>]

\* The draws of a scan made from the page.
ShellDraws ==
    { [i \in 1..Len(CLASS_NAMES) |-> IF i <= ShellLabels THEN f[i] ELSE 0] :
      f \in [1..ShellLabels -> 1..MaxShellDraw] }

\* What a run leaves on the page: action is the interaction that started the
\* run, after the user's interaction it follows from (a run started by
\* st.experimental_rerun() follows from the one before it), button the button
\* pressed in it.
Page(act, btn, out) ==
    [action |-> act,
     after |-> IF act = "experimental_rerun" THEN page.after ELSE act,
     button |-> btn, flow |-> out.flow, detect_calls |-> out.detect_calls,
     status_text |-> out.status_text, panel |-> out.panel, shown |-> out.shown,
     buttons |-> out.buttons, treatments |-> out.treatments,
     short_names |-> out.short_names]

\* One run of main() with the given widget values.  A widget the run does not
\* render loses its value.
Run(act, opt, file, recv, btn, r) ==
    LET out == main(session_state, opt, file, recv, btn, r)
    IN  /\ session_state' = out.ss
        /\ widgets' = [cam_option |-> opt,
                       uploaded_file |-> IF opt = "Upload Image" THEN file ELSE "none",
                       video_receiver |-> (opt = "Use Camera" /\ recv)]
        /\ page' = Page(act, btn, out)
        /\ UNCHANGED <<catalog, image, draws, call>>

\* The first run of a new session: the radio at index 0, nothing uploaded, no
\* stream, no button pressed.
SessionInit ==
    LET out == main(FreshSession, "Use Camera", "none", FALSE, "", None)
    IN  /\ session_state = out.ss
        /\ widgets = [cam_option |-> "Use Camera", uploaded_file |-> "none",
                      video_receiver |-> FALSE]
        /\ page = [action |-> "open", after |-> "open", button |-> "",
                   flow |-> out.flow, detect_calls |-> out.detect_calls,
                   status_text |-> out.status_text, panel |-> out.panel,
                   shown |-> out.shown, buttons |-> out.buttons,
                   treatments |-> out.treatments, short_names |-> out.short_names]

Init ==
    /\ SessionInit
    /\ catalog = CLASS_NAMES
    /\ image = "None"
    /\ draws = <<>>
    /\ call = IdleCall

Interactive == page.flow # "rerun"

\* The user picks another input method.
SelectInput(o) ==
    /\ Interactive
    /\ o # widgets.cam_option
    /\ Run("select", o, "none", FALSE, "", None)

\* The page runs again with nothing changed.
Rerun ==
    /\ Interactive
    /\ Run("rerun", widgets.cam_option, widgets.uploaded_file,
           widgets.video_receiver, "", None)

\* The user puts a file in the uploader.
UploadFile(f) ==
    /\ Interactive
    /\ widgets.cam_option = "Upload Image"
    /\ f # "none"
    /\ Run("upload", widgets.cam_option, f, FALSE, "", None)

\* The user takes the file out of the uploader.
RemoveFile ==
    /\ Interactive
    /\ widgets.uploaded_file # "none"
    /\ Run("remove", widgets.cam_option, "none", FALSE, "", None)

\* The stream gains or loses its video receiver.
ToggleStream ==
    /\ Interactive
    /\ widgets.cam_option = "Use Camera"
    /\ Run("stream", widgets.cam_option, "none", ~widgets.video_receiver, "", None)

CaptureLeaf ==
    /\ Interactive
    /\ "Capture Leaf" \in page.buttons
    /\ \E d \in ShellDraws : \E r \in detect_disease(CLASS_NAMES, "None", d) :
          Run("capture", widgets.cam_option, widgets.uploaded_file,
              widgets.video_receiver, "Capture Leaf", r)

AnalyzeImage ==
    /\ Interactive
    /\ "Analyze Image" \in page.buttons
    /\ \E d \in ShellDraws : \E r \in detect_disease(CLASS_NAMES, "leaf", d) :
          Run("analyze", widgets.cam_option, widgets.uploaded_file,
              widgets.video_receiver, "Analyze Image", r)

TestSample(b) ==
    /\ Interactive
    /\ b \in page.buttons
    /\ Run("sample", widgets.cam_option, widgets.uploaded_file,
           widgets.video_receiver, b, None)

NewScan ==
    /\ Interactive
    /\ "New Scan" \in page.buttons
    /\ Run("new scan", widgets.cam_option, widgets.uploaded_file,
           widgets.video_receiver, "New Scan", None)

\* st.experimental_rerun(): the next run, with no button pressed.
ExperimentalRerun ==
    /\ page.flow = "rerun"
    /\ Run("experimental_rerun", widgets.cam_option, widgets.uploaded_file,
           widgets.video_receiver, "", None)

Next ==
    \/ \E o \in InputMethods : SelectInput(o)
    \/ Rerun
    \/ \E f \in Files : UploadFile(f)
    \/ RemoveFile
    \/ ToggleStream
    \/ CaptureLeaf
    \/ AnalyzeImage
    \/ \E b \in SampleButtons : TestSample(b)
    \/ NewScan
    \/ ExperimentalRerun

Spec == Init /\ [][Next]_vars

----------------------------------------------------------------------------
(* The decision core on its own: one call of detect_disease on drawn         *)
(* confidences, then the results column on what it returned.                 *)

Images == {"None", "leaf"}

\* CLASS_NAMES cut to its first n labels, n = 0 included
Catalogs == {SubSeq(CLASS_NAMES, 1, n) : n \in 0..Len(CLASS_NAMES)}

EngineInit(cats) ==
    /\ SessionInit
    /\ catalog \in cats
    /\ image \in Images
    /\ draws \in DrawsOn(Len(catalog), MaxHot, MaxDraw)
    /\ call = [IdleCall EXCEPT !.stage = "ready"]

\* detect_disease(image) with the catalog as its CLASS_NAMES; the function has
\* no raise and nothing it calls raises on these inputs.
Diagnose ==
    /\ call.stage = "ready"
    /\ \E r \in detect_disease(catalog, image, draws) :
          call' = [call EXCEPT !.stage = "returned", !.results = r]
    /\ UNCHANGED <<session_state, widgets, page, catalog, image, draws>>

\* The results column on the returned list.
Render ==
    /\ call.stage = "returned"
    /\ LET out == ResultsSection([FreshSession EXCEPT !.results = call.results], "")
       IN  call' = [call EXCEPT !.stage = "rendered", !.panel = out.panel,
                                !.treatments = out.treatments,
                                !.short_names = out.short_names]
    /\ UNCHANGED <<session_state, widgets, page, catalog, image, draws>>

EngineNext == Diagnose \/ Render

SpecEngine == EngineInit({CLASS_NAMES}) /\ [][EngineNext]_vars

SpecConfig == EngineInit(Catalogs) /\ [][EngineNext]_vars

----------------------------------------------------------------------------
(* Properties. *)

Returned == call.stage \in {"returned", "rendered"}

\* the catalog indices whose label is in the returned list
Chosen == {i \in 1..Len(catalog) :
              \E k \in 1..Len(call.results) : call.results[k].disease = catalog[i]}

\* where catalog label i stands in the returned list
PlaceOf(i) == CHOOSE k \in 1..Len(call.results) : call.results[k].disease = catalog[i]

\* C1: whatever the image argument and the drawn distribution, detect_disease
\* returns exactly 3 predictions: 3 distinct catalog labels, each with its
\* own confidence of the normalized distribution, a number in [0,1]; they are
\* listed in descending order of confidence and no label left out has a
\* higher confidence than one returned.
C1_TopThree ==
    Returned =>
        LET res == call.results
            total == SumTo(draws, Len(draws))
            chosen == Chosen
        IN  /\ Len(res) = 3
            /\ Cardinality(chosen) = 3
            /\ \A k \in 1..Len(res) :
                  /\ \E i \in 1..Len(catalog) :
                        /\ catalog[i] = res[k].disease
                        /\ res[k].confidence = <<draws[i], total>>
                  /\ 0 <= res[k].confidence[1]
                  /\ res[k].confidence[1] <= res[k].confidence[2]
            /\ \A k \in 1..(Len(res) - 1) :
                  FracLeq(res[k + 1].confidence, res[k].confidence)
            /\ \A i \in (1..Len(catalog)) \ chosen : \A k \in 1..Len(res) :
                  FracLeq(<<draws[i], total>>, res[k].confidence)

\* C1's case: a call with an image whose three returned confidences differ and
\* are all above a label left out.
C1_Witness ==
    /\ call.stage = "returned"
    /\ image = "leaf"
    /\ Len(call.results) = 3
    /\ ~FracLeq(call.results[1].confidence, call.results[2].confidence)
    /\ ~FracLeq(call.results[2].confidence, call.results[3].confidence)
    /\ call.results[3].confidence[1] > 0

\* C2: two labels of equal confidence are ranked in catalog order: when both
\* are returned the one with the smaller catalog index comes first, and when
\* only one is returned it is the one with the smaller index.
C2_TiesInCatalogOrder ==
    Returned =>
        \A i, j \in 1..Len(catalog) :
            (i < j /\ draws[i] = draws[j]) =>
                /\ (j \in Chosen => i \in Chosen)
                /\ (i \in Chosen /\ j \in Chosen => PlaceOf(i) < PlaceOf(j))

\* C3: for the top label of a returned list, get_treatments gives a non-empty
\* list chosen by the first pattern the label contains, in the order
\* "Healthy", "Early Blight", "Late Blight", "Septoria", and the default list
\* when it contains none of them.
C3_FirstMatchingRule ==
    (call.stage = "rendered" /\ call.results # None) =>
        LET label == call.results[1].disease
            first == call.treatments[1]
        IN  /\ Len(call.treatments) = 4
            /\ IF Contains("Healthy", label)
               THEN first = "Continue regular monitoring"
               ELSE IF Contains("Early Blight", label)
               THEN first = "Remove infected leaves immediately"
               ELSE IF Contains("Late Blight", label)
               THEN first = "Apply chlorothalonil (0.05%) immediately"
               ELSE IF Contains("Septoria", label)
               THEN first = "Apply mancozeb fungicide (2g/L water)"
               ELSE /\ first = "Apply neem oil spray every 7 days"
                    /\ call.treatments = DefaultAdvice
            /\ label = "Healthy Tomato" => call.treatments = HealthyAdvice
            /\ label = "Tomato Early Blight" => call.treatments = EarlyBlightAdvice
            /\ label = "Tomato Late Blight" => call.treatments = LateBlightAdvice
            /\ label = "Tomato Septoria Leaf Spot" => call.treatments = SeptoriaAdvice

\* C3's case: a label that matches none of the four patterns was rendered
\* with the default list.
C3_Witness ==
    /\ call.stage = "rendered"
    /\ call.results # None
    /\ call.results[1].disease = "Tomato Spider Mites"
    /\ call.treatments = DefaultAdvice

\* C4: a chart label is the disease name without "Tomato ", cut to 20
\* characters and followed by "..." exactly when what remains after the
\* stripping is longer than 20 characters.
C4_EllipsisIffRemainderLong ==
    (call.stage = "rendered" /\ call.results # None) =>
        \A k \in 1..Len(call.results) :
            LET rest == StrReplace(call.results[k].disease, "Tomato ", "")
            IN  call.short_names[k] =
                    IF Len(rest) > 20 THEN SubSeq(rest, 1, 20) \o "..." ELSE rest

\* C8: detect_disease on an empty catalog fails with a ConfigurationError, and
\* a call that returns gives at least min(3, catalog size) predictions, never
\* an empty list.
C8_EmptyCatalogFails ==
    Returned =>
        /\ catalog = <<>> => call.raised = "ConfigurationError"
        /\ call.raised = "" =>
              /\ call.results # <<>>
              /\ Len(call.results) >= Min(3, Len(catalog))

ScanActions == {"capture", "analyze", "sample"}

\* C5: the stored result changes only in a run started by a scan action
\* (capture, analyze, a preset) or by "New Scan"; selecting an input method or
\* a run with no button pressed leaves it as it is.
C5_ChangedOnlyByScanOrNewScan ==
    [][session_state'.results # session_state.results
          => page'.action \in ScanActions \cup {"new scan"}]_vars

\* C6: a run that fails on an unreadable image leaves the session state as it
\* was before, and a result stored before it is still displayed.
C6_FailedScanChangesNothing ==
    [][page'.flow = "error" =>
          /\ session_state' = session_state
          /\ session_state.results # None => page'.panel = "results"]_vars

\* C7: a preset button stores its own literal list and the run does not call
\* detect_disease: "Early Blight" stores Tomato Early Blight 0.92, Tomato
\* Septoria Leaf Spot 0.06, Tomato Late Blight 0.02; "Late Blight" stores a
\* list headed by Tomato Late Blight; "Healthy" one headed by Healthy Tomato
\* at 0.95.
C7_PresetLiterals ==
    page.action = "sample" =>
        /\ page.detect_calls = 0
        /\ Len(session_state.results) = 3
        /\ page.button = "Test Early Blight" =>
              session_state.results =
                  << [disease |-> "Tomato Early Blight", confidence |-> <<92, 100>>],
                     [disease |-> "Tomato Septoria Leaf Spot", confidence |-> <<6, 100>>],
                     [disease |-> "Tomato Late Blight", confidence |-> <<2, 100>>] >>
        /\ page.button = "Test Late Blight" =>
              session_state.results[1].disease = "Tomato Late Blight"
        /\ page.button = "Test Healthy Leaf" =>
              session_state.results[1] =
                  [disease |-> "Healthy Tomato", confidence |-> <<95, 100>>]

\* C7's case: the "Early Blight" preset was pressed and its list is on the
\* results panel.
C7_Witness ==
    /\ page.action = "sample"
    /\ page.button = "Test Early Blight"
    /\ page.panel = "results"
    /\ page.shown = session_state.results
    /\ session_state.results[1].disease = "Tomato Early Blight"

\* a run called the treatment table or the chart formatter
Invoked == page.treatments # <<>> \/ page.short_names # <<>> \/ page.panel = "results"

\* C9: the treatment table and the chart formatter are called only in runs
\* whose results column read a stored result; once "New Scan" has been
\* handled the session holds no result and the page shows the placeholder,
\* with neither of them called; and a session without a result gets one only
\* from a scan action.
C9_NoResultNoRendering ==
    /\ [](Invoked => page.shown # None)
    /\ []((page.after = "new scan" /\ page.flow = "run") =>
             /\ session_state.results = None
             /\ page.panel = "placeholder"
             /\ ~Invoked)
    /\ [][(session_state.results = None /\ session_state'.results # None)
             => page'.action \in ScanActions]_vars

\* C9's case: "New Scan" was pressed in upload mode and the run after it
\* shows the placeholder.
C9_Witness ==
    /\ page.after = "new scan"
    /\ page.action = "experimental_rerun"
    /\ page.flow = "run"
    /\ widgets.cam_option = "Upload Image"
    /\ page.panel = "placeholder"
    /\ session_state.results = None

\* C10: at the end of a run that reached the footer (no analysis is running:
\* an analysis starts and ends inside one run) the processing flag is false
\* and the status indicator does not read "Analyzing leaf...".
C10_IdleNotProcessing ==
    page.flow = "run" =>
        /\ session_state.processing = FALSE
        /\ page.status_text # "Analyzing leaf..."

====
